---------------------------- MODULE Spec2Model ----------------------------
(***************************************************************************)
(* Model of src/video_core/pica_types.h: the Pica fixed-point type         *)
(* Fix12P4 (12 integer bits, 4 fraction bits, two's complement, stored in  *)
(* an int16_t) and the Pica float template Float<M, E> (decoded from raw   *)
(* register bits into an IEEE 754 binary32 value).                         *)
(*                                                                         *)
(* Both types are value types.  Every operation is an operator computed    *)
(* the way the C++ computes it (integer promotion to 32-bit int, bitwise   *)
(* masks, division truncating toward zero, conversion back to 16 bits),    *)
(* and an action that applies it to the operands held in the state.        *)
(***************************************************************************)
EXTENDS Integers, Sequences, FiniteSets

VARIABLES
    pc,      \* the last call made: "new" / "made" before any, then its name
    value,   \* Fix12P4::value of the object the call is made on (int16_t)
    other,   \* Fix12P4::value of the right operand `other` (int16_t)
    arg,     \* the arguments the operands were made from
    ret,     \* what the last call returned
    fault    \* TRUE when the last call ended in a hardware trap (SIGFPE)

vars == <<pc, value, other, arg, ret, fault>>

-----------------------------------------------------------------------------
(***************************************************************************)
(* Machine integers.                                                       *)
(***************************************************************************)

\* int16_t
Int16Min == -32768
Int16Max == 32767
Int16 == Int16Min..Int16Max

\* static_cast<int16_t>(n) of an int n: the low 16 bits, two's complement.
ToInt16(n) == ((n + 32768) % 65536) - 32768

\* static_cast<uint16_t>(n) of an int n: the low 16 bits.
ToUint16(n) == n % 65536

\* a & b on two's-complement ints: n % 2 is the low bit and n \div 2 the
\* arithmetic shift, also for negative n; 0 is all zeros and -1 all ones.
RECURSIVE BitAnd(_, _)
BitAnd(a, b) ==
    IF a = 0 \/ b = 0 THEN 0
    ELSE IF a = -1 THEN b
    ELSE IF b = -1 THEN a
    ELSE (a % 2) * (b % 2) + 2 * BitAnd(a \div 2, b \div 2)

\* a | b on two's-complement ints.
RECURSIVE BitOr(_, _)
BitOr(a, b) ==
    IF a = -1 \/ b = -1 THEN -1
    ELSE IF a = 0 THEN b
    ELSE IF b = 0 THEN a
    ELSE (IF a % 2 = 1 \/ b % 2 = 1 THEN 1 ELSE 0)
         + 2 * BitOr(a \div 2, b \div 2)

\* a / b on C++ ints, b # 0: the quotient truncated toward zero.
TruncDiv(a, b) ==
    LET q == (IF a < 0 THEN -a ELSE a) \div (IF b < 0 THEN -b ELSE b)
    IN  IF (a < 0) = (b < 0) THEN q ELSE -q

-----------------------------------------------------------------------------
(***************************************************************************)
(* Fix12P4.                                                                *)
(***************************************************************************)

\* static_cast<int16_t>(0xF)
FracMask == ToInt16(15)

\* static_cast<int16_t>(~0xF)
IntMask == ToInt16(-16)

\* Fix12P4::FromInt(int16_t int_val, uint16_t frac_val)
FromInt(int_val, frac_val) ==
    ToInt16(BitOr(BitAnd(int_val * 16, IntMask), BitAnd(frac_val, FracMask)))

\* Int() dividing the raw value without masking the fraction off first.
IntOf_unmasked(v) == ToInt16(TruncDiv(v, 16))

\* Fix12P4::Int()
IntOf(v) == ToInt16(TruncDiv(BitAnd(v, IntMask), 16))

\* Fix12P4::Frac()
Frac(v) == ToUint16(BitAnd(v, FracMask))

\* Floor() rounding toward zero instead of masking.
Floor_towardZero(v) == ToInt16(TruncDiv(v, 16) * 16)

\* Fix12P4::Floor()
Floor(v) == ToInt16(BitAnd(v, IntMask))

\* Ceil() adding one whole unit (16) instead of FracMask (15).
Ceil_addsUnit(v) == Floor(ToInt16(v + FracMask + 1))

\* Fix12P4::Ceil()
Ceil(v) == Floor(ToInt16(v + FracMask))


\* Multiply() dividing with the floor instead of truncating toward zero.
Multiply_floor(left, right) == ToInt16((left * right) \div 16)

\* Fix12P4::Multiply(int16_t left, int16_t right)
Multiply(left, right) == ToInt16(TruncDiv(left * right, 16))

\* Fix12P4::Divide(int16_t left, int16_t right), right # 0
Divide(left, right) == ToInt16(TruncDiv(left * 16, right))

\* operator< comparing the raw values as unsigned 16-bit patterns.
Less_unsigned(left, right) == ToUint16(left) < ToUint16(right)

\* operator<(const Fix12P4& left, const Fix12P4& right)
Less(left, right) == left < right

\* operator>
Greater(left, right) == Less(right, left)

\* operator>=
GreaterEq(left, right) == ~Less(left, right)

\* operator<=
LessEq(left, right) == ~Less(right, left)

\* operator==
Equal(left, right) == left = right

\* operator!=
NotEqual(left, right) == ~Equal(left, right)

\* ::round(k / 2): to the nearest integer, halfway cases away from zero.
RoundHalfAway(k) ==
    IF k >= 0 THEN (k + 1) \div 2 ELSE -((1 - k) \div 2)

\* static_cast<int16_t>(d) of a double d holding the integer n.  When n is
\* not an int16_t value the conversion is undefined: the builds either keep
\* the low 16 bits of the 32-bit conversion (cvttsd2si / fcvtzs, then the
\* 16-bit store) or, when the compiler folds the constant, saturate.
DoubleToInt16(n) ==
    IF n \in Int16 THEN {n}
    ELSE {ToInt16(n), IF n < 0 THEN Int16Min ELSE Int16Max}

\* FromFloat() without the scale by 16: round(float_val), float_val = k / 32.
FromFloat_unscaled(k) == DoubleToInt16(RoundHalfAway(TruncDiv(k, 16)))

\* Fix12P4::FromFloat(float float_val), for float_val = k / 32 (so that
\* float_val * 16.0f = k / 2, exactly): the raw values it can return.
FromFloat(k) == DoubleToInt16(RoundHalfAway(k))

-----------------------------------------------------------------------------
(***************************************************************************)
(* The inputs of the one-operand specification.                            *)
(***************************************************************************)

\* FromInt is given int_val in -2048 - ExtraInt .. 2047 + ExtraInt and
\* frac_val in 0 .. 15 + ExtraFrac; FromFloat is given the 12-bit integers,
\* sixteen times them, and every k / 32 with |k| <= MaxHalf.
ExtraInt == 2
ExtraFrac == 2
MaxHalf == 40

IntPartMin == -2048
IntPartMax == 2047

IntArgs == (IntPartMin - ExtraInt)..(IntPartMax + ExtraInt)
FracArgs == 0..(15 + ExtraFrac)
FloatArgs ==
    {32 * n : n \in IntPartMin..IntPartMax}
    \cup {512 * n : n \in IntPartMin..IntPartMax}
    \cup (-MaxHalf..MaxHalf)

Init ==
    /\ pc = "new"
    /\ value = 0
    /\ other = 0
    /\ arg = [ctor |-> "default", a |-> 0, b |-> 0]
    /\ ret = 0
    /\ fault = FALSE

\* explicit Fix12P4(int16_t raw)
Construct ==
    /\ pc = "new"
    /\ \E raw \in Int16 :
        /\ value' = raw
        /\ arg' = [ctor |-> "raw", a |-> raw, b |-> 0]
    /\ pc' = "made"
    /\ UNCHANGED <<other, ret, fault>>

Call_FromInt ==
    /\ pc = "new"
    /\ \E int_val \in IntArgs, frac_val \in FracArgs :
        /\ value' = FromInt(int_val, frac_val)
        /\ arg' = [ctor |-> "FromInt", a |-> int_val, b |-> frac_val]
    /\ pc' = "made"
    /\ UNCHANGED <<other, ret, fault>>

Call_FromFloat ==
    /\ pc = "new"
    /\ \E k \in FloatArgs :
        /\ value' \in FromFloat(k)
        /\ arg' = [ctor |-> "FromFloat", a |-> k, b |-> 0]
    /\ pc' = "made"
    /\ UNCHANGED <<other, ret, fault>>

Call_Int ==
    /\ pc = "made"
    /\ ret' = IntOf(value)
    /\ pc' = "Int"
    /\ UNCHANGED <<value, other, arg, fault>>

Call_Frac ==
    /\ pc = "made"
    /\ ret' = Frac(value)
    /\ pc' = "Frac"
    /\ UNCHANGED <<value, other, arg, fault>>

Call_Ceil ==
    /\ pc = "made"
    /\ ret' = Ceil(value)
    /\ pc' = "Ceil"
    /\ UNCHANGED <<value, other, arg, fault>>

Call_Floor ==
    /\ pc = "made"
    /\ ret' = Floor(value)
    /\ pc' = "Floor"
    /\ UNCHANGED <<value, other, arg, fault>>

Next ==
    \/ Construct
    \/ Call_FromInt
    \/ Call_FromFloat
    \/ Call_Int
    \/ Call_Frac
    \/ Call_Ceil
    \/ Call_Floor

Spec == Init /\ [][Next]_vars

-----------------------------------------------------------------------------
(***************************************************************************)
(* Claims about one Fix12P4 value, checked under Spec.                     *)
(***************************************************************************)

IntParts == IntPartMin..IntPartMax

\* C5, as stated: for every integer n in [-2048, 2047],
\* FromFloat(16 * n).Floor() == FromInt(n).  (arg.a = k means the float
\* k / 32, so the float 16 * n is k = 512 * n.)
C5_AsStated ==
    (pc = "Floor" /\ arg.ctor = "FromFloat"
        /\ arg.a % 512 = 0 /\ arg.a \div 512 \in IntParts)
        => ret = FromInt(arg.a \div 512, 0)

\* C5, amended: for every integer n in [-2048, 2047],
\* FromFloat(n).Floor() == FromInt(n), the raw value 16 * n; FromFloat(n)
\* has the raw value round(n * 16), which is an int16_t for these n.
C5_FloorOfFromFloat ==
    (arg.ctor = "FromFloat" /\ arg.a % 32 = 0 /\ arg.a \div 32 \in IntParts)
        => LET n == arg.a \div 32
           IN  /\ value = 16 * n
               /\ pc = "Floor" => (ret = FromInt(n, 0) /\ ret = 16 * n)

C5_Witness ==
    /\ pc = "Floor"
    /\ arg.ctor = "FromFloat"
    /\ arg.a = 32 * IntPartMin
    /\ ret = Int16Min

\* C6: for every n in [-2048, 2047], FromInt(n).Ceil() == FromInt(n); and
\* every Fix12P4 whose raw value has a zero fraction nibble, anywhere in the
\* int16_t range, is a fixed point of Ceil().
C6_CeilFixesIntegral ==
    pc = "Ceil" =>
        /\ (arg.ctor = "FromInt" /\ arg.a \in IntParts /\ arg.b = 0)
              => (value = 16 * arg.a /\ ret = value)
        /\ value % 16 = 0 => ret = value

C6_Witness ==
    /\ pc = "Ceil"
    /\ arg.ctor = "FromInt"
    /\ arg.a = IntPartMax
    /\ arg.b = 0
    /\ ret = 16 * IntPartMax

\* C9: for every raw value r, Frac() is in 0..15 and Int() * 16 + Frac()
\* is r, Int() being the floor of r / 16 also for negative r; and for every
\* intPart in [-2048, 2047] and fracPart in 0..15, FromInt(intPart,
\* fracPart) has Int() == intPart and Frac() == fracPart.
C9_IntFrac ==
    LET fromParts ==
            arg.ctor = "FromInt" /\ arg.a \in IntParts /\ arg.b \in 0..15
    IN  /\ pc = "Frac" =>
              /\ ret \in 0..15
              /\ IntOf(value) * 16 + ret = value
              /\ fromParts => ret = arg.b
        /\ pc = "Int" =>
              /\ ret * 16 + Frac(value) = value
              /\ ret * 16 <= value
              /\ value < (ret + 1) * 16
              /\ fromParts => ret = arg.a

C9_Witness ==
    /\ pc = "Int"
    /\ arg.ctor = "raw"
    /\ value = -17
    /\ ret = -2

\* C10, as stated: for every raw value x in the whole int16_t range, Ceil(x)
\* has a zero fraction nibble, Ceil(x) >= x and Ceil(x) - x <= 15; and
\* Floor(x) has a zero fraction nibble, Floor(x) <= x and x - Floor(x) <= 15.
C10_AsStated ==
    /\ pc = "Ceil" => (ret % 16 = 0 /\ ret >= value /\ ret - value <= 15)
    /\ pc = "Floor" => (ret % 16 = 0 /\ ret <= value /\ value - ret <= 15)

\* The largest raw value with a zero fraction nibble (2047.0).
MaxIntegral == Int16Max - FracMask

\* C10, amended: Ceil(x) is the smallest integral value not less than x for
\* every raw x up to 32752 (2047.0); for the fifteen raw values above it,
\* x + 15 does not fit 16 bits and Ceil(x) is -32768 (-2048.0).  Floor(x) is
\* the largest integral value not above x over the whole range.
C10_CeilFloor ==
    /\ (pc = "Ceil" /\ value <= MaxIntegral)
          => (ret % 16 = 0 /\ ret >= value /\ ret - value <= 15)
    /\ (pc = "Ceil" /\ value > MaxIntegral) => ret = Int16Min
    /\ pc = "Floor" => (ret % 16 = 0 /\ ret <= value /\ value - ret <= 15)

C10_Witness ==
    /\ pc = "Ceil"
    /\ value = -17
    /\ ret = -16

-----------------------------------------------------------------------------
(***************************************************************************)
(* Two Fix12P4 operands: the product, the quotient and the comparisons.    *)
(***************************************************************************)

\* The operand pairs: every pair of raw values from a sample (the values
\* around zero and the values at both ends of the int16_t range), and
\* FromInt(1) with every raw value.
MaxSmall == 40
MaxEdge == 2

FixSample ==
    (-MaxSmall..MaxSmall)
    \cup {Int16Min + i : i \in 0..MaxEdge}
    \cup {Int16Max - i : i \in 0..MaxEdge}

One == FromInt(1, 0)

OperandPairs == (FixSample \X FixSample) \cup ({One} \X Int16)

InitBin ==
    /\ pc = "made"
    /\ \E p \in OperandPairs :
        /\ value = p[1]
        /\ other = p[2]
        /\ arg = [ctor |-> "raw", a |-> p[1], b |-> p[2]]
    /\ ret = 0
    /\ fault = FALSE

\* operator*
Call_Mul ==
    /\ pc = "made"
    /\ ret' = Multiply(value, other)
    /\ pc' = "Mul"
    /\ UNCHANGED <<value, other, arg, fault>>

\* operator*=
Call_MulAssign ==
    /\ pc = "made"
    /\ value' = Multiply(value, other)
    /\ ret' = value'
    /\ pc' = "MulAssign"
    /\ UNCHANGED <<other, arg, fault>>

\* The integer division (left * 16) / right with right = 0 is undefined.
\* The x86 builds execute idiv, which raises #DE: the process receives
\* SIGFPE and the call never returns.  The ARM builds execute sdiv, which
\* yields 0 and raises nothing; other builds leave whatever the optimiser
\* made of the expression.
DivideTraps(right) == IF right = 0 THEN {TRUE, FALSE} ELSE {FALSE}

DivideResults(left, right) ==
    IF right = 0 THEN FixSample ELSE {Divide(left, right)}

\* operator/
Call_Div ==
    /\ pc = "made"
    /\ pc' = "Div"
    /\ \E trap \in DivideTraps(other) :
        /\ fault' = trap
        /\ IF trap THEN ret' = ret
           ELSE ret' \in DivideResults(value, other)
    /\ UNCHANGED <<value, other, arg>>

\* operator/=
Call_DivAssign ==
    /\ pc = "made"
    /\ pc' = "DivAssign"
    /\ \E trap \in DivideTraps(other) :
        /\ fault' = trap
        /\ IF trap THEN value' = value /\ ret' = ret
           ELSE value' \in DivideResults(value, other) /\ ret' = value'
    /\ UNCHANGED <<other, arg>>

Call_Less ==
    /\ pc = "made"
    /\ ret' = Less(value, other)
    /\ pc' = "Less"
    /\ UNCHANGED <<value, other, arg, fault>>

Call_Greater ==
    /\ pc = "made"
    /\ ret' = Greater(value, other)
    /\ pc' = "Greater"
    /\ UNCHANGED <<value, other, arg, fault>>

Call_GreaterEq ==
    /\ pc = "made"
    /\ ret' = GreaterEq(value, other)
    /\ pc' = "GreaterEq"
    /\ UNCHANGED <<value, other, arg, fault>>

Call_LessEq ==
    /\ pc = "made"
    /\ ret' = LessEq(value, other)
    /\ pc' = "LessEq"
    /\ UNCHANGED <<value, other, arg, fault>>

Call_Equal ==
    /\ pc = "made"
    /\ ret' = Equal(value, other)
    /\ pc' = "Equal"
    /\ UNCHANGED <<value, other, arg, fault>>

Call_NotEqual ==
    /\ pc = "made"
    /\ ret' = NotEqual(value, other)
    /\ pc' = "NotEqual"
    /\ UNCHANGED <<value, other, arg, fault>>

NextBin ==
    \/ Call_Mul
    \/ Call_MulAssign
    \/ Call_Div
    \/ Call_DivAssign
    \/ Call_Less
    \/ Call_Greater
    \/ Call_GreaterEq
    \/ Call_LessEq
    \/ Call_Equal
    \/ Call_NotEqual

SpecBin == InitBin /\ [][NextBin]_vars

\* C4, as stated: operator/ and operator/= by a divisor whose raw value is 0
\* fail with an arithmetic error for every nonzero dividend: no result is
\* produced and the left operand of operator/= is not changed.
C4_AsStated ==
    (pc \in {"Div", "DivAssign"} /\ arg.b = 0 /\ arg.a # 0)
        => (fault /\ value = arg.a)

\* C7: operator* yields (l * r) / 16 truncated toward zero and reduced to
\* 16 bits; when l * r is negative and not a multiple of 16 that is one
\* more than the floor; and FromInt(1) * x == x for every raw x.
C7_TruncatingMultiply ==
    pc = "Mul" =>
        LET p == arg.a * arg.b
            q == IF p < 0 /\ p % 16 # 0 THEN (p \div 16) + 1 ELSE p \div 16
        IN  /\ ret = ToInt16(q)
            /\ arg.a = One => ret = arg.b

C7_Witness ==
    /\ pc = "Mul"
    /\ arg.a = -3
    /\ arg.b = 5
    /\ ret = 0

\* The order of the represented reals a / 16 and b / 16, by integer part
\* and then by sixteenths.
RealLess(a, b) ==
    \/ a \div 16 < b \div 16
    \/ (a \div 16 = b \div 16 /\ a % 16 < b % 16)

\* C8: a < b holds exactly when a / 16 < b / 16; exactly one of a < b,
\* a == b, a > b holds; a <= b is the negation of a > b, a >= b of a < b,
\* and a != b of a == b.
C8_Ordering ==
    LET a == arg.a
        b == arg.b
        one(x, y, z) == (x /\ ~y /\ ~z) \/ (~x /\ y /\ ~z) \/ (~x /\ ~y /\ z)
    IN  /\ pc = "Less" => (ret <=> RealLess(a, b))
        /\ pc = "Greater" => (ret <=> RealLess(b, a))
        /\ pc = "Equal" => (ret <=> (~RealLess(a, b) /\ ~RealLess(b, a)))
        /\ pc = "LessEq" =>
              ((ret <=> ~Greater(a, b)) /\ (ret <=> ~RealLess(b, a)))
        /\ pc = "GreaterEq" =>
              ((ret <=> ~Less(a, b)) /\ (ret <=> ~RealLess(a, b)))
        /\ pc = "NotEqual" =>
              ((ret <=> ~Equal(a, b)) /\ (ret <=> a # b))
        /\ pc \in {"Less", "Greater", "Equal"}
              => one(Less(a, b), Equal(a, b), Greater(a, b))

C8_Witness ==
    /\ pc = "Less"
    /\ arg.a = Int16Min
    /\ arg.b = Int16Max
    /\ ret = TRUE

-----------------------------------------------------------------------------
(***************************************************************************)
(* 32-bit words.  A u32, and the bits of a float, is the function from bit *)
(* position 0..31 to the bit.                                              *)
(***************************************************************************)

BitPos == 0..31

\* The u32 holding the non-negative int n.
U32(n) == [i \in BitPos |-> IF i = 31 THEN 0 ELSE (n \div 2^i) % 2]

\* w >> n and w << n on a u32
Shr(w, n) == [i \in BitPos |-> IF i + n <= 31 THEN w[i + n] ELSE 0]
Shl(w, n) == [i \in BitPos |-> IF i >= n THEN w[i - n] ELSE 0]

\* w & x and w | x on u32s
And32(w, x) == [i \in BitPos |-> w[i] * x[i]]
Or32(w, x) == [i \in BitPos |-> IF w[i] = 1 \/ x[i] = 1 THEN 1 ELSE 0]

\* The number held by the n bits of w from bit lo up (n <= 30).
RECURSIVE Field(_, _, _)
Field(w, lo, n) ==
    IF n = 0 THEN 0 ELSE w[lo] + 2 * Field(w, lo + 1, n - 1)

\* The conversion of a u32 below 2^31 to int.
ToInt(w) == Field(w, 0, 30) + 1073741824 * w[30]

\* Whether a u32 is nonzero (its truth value in an if).
NonZero(w) == \E i \in BitPos : w[i] = 1

-----------------------------------------------------------------------------
(***************************************************************************)
(* Float<M, E>.  Float::value is held as the 32 bits of the native float.  *)
(***************************************************************************)

\* using float24 = Float<16, 7>; float20 = Float<12, 7>; float16 = Float<10, 5>
Formats == {<<16, 7>>, <<12, 7>>, <<10, 5>>}

\* FromRaw() with the bias one too small (127 - 2^(E-1)).
FromRaw_biasOffByOne(M, E, hex0) ==
    LET width == M + E + 1
        bias == 127 - 2^(E - 1)
        exponent == ToInt(And32(Shr(hex0, M), U32(2^E - 1)))
        mantissa == And32(hex0, U32(2^M - 1))
    IN  IF NonZero(And32(hex0, U32(2^(width - 1) - 1)))
        THEN Or32(Or32(Shl(Shr(hex0, E + M), 31), Shl(mantissa, 23 - M)),
                  Shl(U32(exponent + bias), 23))
        ELSE Shl(Shr(hex0, E + M), 31)

\* FromRaw() without the test for an all-zero mantissa and exponent.
FromRaw_noZeroCase(M, E, hex0) ==
    LET bias == 128 - 2^(E - 1)
        exponent == ToInt(And32(Shr(hex0, M), U32(2^E - 1)))
        mantissa == And32(hex0, U32(2^M - 1))
    IN  Or32(Or32(Shl(Shr(hex0, E + M), 31), Shl(mantissa, 23 - M)),
             Shl(U32(exponent + bias), 23))

\* Float<M, E>::FromRaw(u32 hex): the bits of res.value
FromRaw(M, E, hex0) ==
    LET width == M + E + 1
        bias == 128 - 2^(E - 1)
        exponent == ToInt(And32(Shr(hex0, M), U32(2^E - 1)))
        mantissa == And32(hex0, U32(2^M - 1))
    IN  IF NonZero(And32(hex0, U32(2^(width - 1) - 1)))
        THEN Or32(Or32(Shl(Shr(hex0, E + M), 31), Shl(mantissa, 23 - M)),
                  Shl(U32(exponent + bias), 23))
        ELSE Shl(Shr(hex0, E + M), 31)

\* The raw patterns decoded: every sign and exponent of each format, with
\* the mantissas 0..MaxMant, the MaxMant + 1 largest, and the top bit alone.
MaxMant == 15

MantSample(M) ==
    (0..MaxMant) \cup {2^M - 1 - i : i \in 0..MaxMant} \cup {2^(M - 1)}

RawSample(M, E) ==
    {sign * 2^(M + E) + exponent * 2^M + mantissa :
        sign \in 0..1, exponent \in 0..(2^E - 1), mantissa \in MantSample(M)}

\* `Float<M, E> res;` leaves res.value unset; FromRaw writes it before any
\* read, so the bits it starts with play no part.
InitRaw ==
    /\ pc = "new"
    /\ value = U32(0)
    /\ other = U32(0)
    /\ \E f \in Formats : \E hex \in RawSample(f[1], f[2]) :
          arg = [M |-> f[1], E |-> f[2], hex |-> hex]
    /\ ret = 0
    /\ fault = FALSE

Call_FromRaw ==
    /\ pc = "new"
    /\ value' = FromRaw(arg.M, arg.E, U32(arg.hex))
    /\ pc' = "FromRaw"
    /\ UNCHANGED <<other, arg, ret, fault>>

NextRaw == Call_FromRaw

SpecRaw == InitRaw /\ [][NextRaw]_vars

\* The fields of the raw pattern arg.hex of Float<arg.M, arg.E>.
RawSign == arg.hex \div 2^(arg.M + arg.E)
RawExponent == (arg.hex \div 2^arg.M) % 2^arg.E
RawMantissa == arg.hex % 2^arg.M

\* C1: for a raw pattern with a mantissa or exponent bit set, FromRaw stores
\* sign<<31 | (exponent + bias)<<23 | mantissa<<(23 - M), bias = 128 -
\* 2^(E-1): the three fields do not overlap, and the 8-bit exponent field is
\* in 1..254 (no denormal, Infinity or NaN).
C1_DecodeNormal ==
    (pc = "FromRaw" /\ arg.hex % 2^(arg.M + arg.E) # 0) =>
        LET bias == 128 - 2^(arg.E - 1)
        IN  /\ value[31] = RawSign
            /\ Field(value, 23, 8) = RawExponent + bias
            /\ Field(value, 23 - arg.M, arg.M) = RawMantissa
            /\ Field(value, 0, 23 - arg.M) = 0
            /\ Field(value, 23, 8) \in 1..254

C1_Witness ==
    /\ pc = "FromRaw"
    /\ arg.M = 10
    /\ arg.E = 5
    /\ arg.hex = 65535
    /\ value[31] = 1
    /\ Field(value, 23, 8) = 143
    /\ Field(value, 0, 23) = 1023 * 8192

\* C2: FromRaw(0) stores 0x00000000 and FromRaw(1 << (M + E)) stores
\* 0x80000000; whenever the mantissa and exponent bits are all zero the
\* result is sign<<31, with no bias added.
C2_DecodeZero ==
    (pc = "FromRaw" /\ arg.hex % 2^(arg.M + arg.E) = 0) =>
        /\ value[31] = RawSign
        /\ \A i \in 0..30 : value[i] = 0

C2_Witness ==
    /\ pc = "FromRaw"
    /\ arg.M = 16
    /\ arg.E = 7
    /\ arg.hex = 2^23
    /\ value = [i \in BitPos |-> IF i = 31 THEN 1 ELSE 0]

-----------------------------------------------------------------------------
(***************************************************************************)
(* The native float product (IEEE 754 binary32, round to nearest even).    *)
(***************************************************************************)

\* The float with sign bit s, exponent field e and mantissa field m.
MakeFloat(s, e, m) == Or32(Or32(Shl(U32(s), 31), Shl(U32(e), 23)), U32(m))

FSign(w) == w[31]
FExp(w) == Field(w, 23, 8)
FMant(w) == Field(w, 0, 23)

\* std::isnan(w)
IsNaN(w) == FExp(w) = 255 /\ FMant(w) # 0

\* std::isinf(w)
IsInf(w) == FExp(w) = 255 /\ FMant(w) = 0

\* w == 0.f: true of +0.0 and of -0.0
EqZero(w) == FExp(w) = 0 /\ FMant(w) = 0

\* The position of the highest set bit of n > 0.
RECURSIVE TopBit(_)
TopBit(n) == IF n <= 1 THEN 0 ELSE 1 + TopBit(n \div 2)

\* The product of two finite nonzero floats.  A float is sig * 2^(ex - 150)
\* with sig its 24-bit significand; the 48-bit product of the significands
\* is held as two 24-bit halves hi and lo, shifted to 24 bits (or to the
\* denormal position) and rounded to nearest, ties to even.
FiniteProduct(a, b) ==
    LET sgn == (FSign(a) + FSign(b)) % 2
        sa == IF FExp(a) = 0 THEN FMant(a) ELSE 8388608 + FMant(a)
        sb == IF FExp(b) = 0 THEN FMant(b) ELSE 8388608 + FMant(b)
        ea == IF FExp(a) = 0 THEN 1 ELSE FExp(a)
        eb == IF FExp(b) = 0 THEN 1 ELSE FExp(b)
        ah == sa \div 4096
        al == sa % 4096
        bh == sb \div 4096
        bl == sb % 4096
        cross == ah * bl + al * bh
        losum == al * bl + (cross % 4096) * 4096
        lo == losum % 16777216
        hi == ah * bh + cross \div 4096 + losum \div 16777216
        bit(i) == IF i < 0 \/ i > 47 THEN 0
                  ELSE IF i < 24 THEN (lo \div 2^i) % 2
                  ELSE (hi \div 2^(i - 24)) % 2
        top == IF hi > 0 THEN 24 + TopBit(hi) ELSE TopBit(lo)
        expo == top + ea + eb - 173
        shift == IF expo >= 1 THEN top - 23 ELSE 151 - ea - eb
        RECURSIVE kept(_, _)
        kept(i, n) == IF n = 0 THEN 0 ELSE bit(i) + 2 * kept(i + 1, n - 1)
        q == IF shift > 0 THEN kept(shift, 24) ELSE lo * 2^(-shift)
        sticky == \E i \in 0..47 : i < shift - 1 /\ bit(i) = 1
        up == IF bit(shift - 1) = 1 /\ (sticky \/ q % 2 = 1) THEN 1 ELSE 0
        qr == q + up
        e == (IF expo >= 1 THEN expo - 1 ELSE 0) + qr \div 8388608
    IN  IF e >= 255 THEN MakeFloat(sgn, 255, 0)
        ELSE MakeFloat(sgn, e, qr % 8388608)

\* A NaN operand as the product returns it: made quiet.
Quiet(w) == Or32(w, MakeFloat(0, 0, 4194304))

\* a * b on native floats: the results the hardware can give.  A NaN operand
\* gives that NaN, made quiet (which of two NaNs depends on the unit);
\* Infinity times zero gives the default NaN, whose sign bit is set on x86
\* and clear on ARM.
NativeMul(a, b) ==
    LET sgn == (FSign(a) + FSign(b)) % 2
    IN  IF IsNaN(a) \/ IsNaN(b)
        THEN {Quiet(w) : w \in {x \in {a, b} : IsNaN(x)}}
        ELSE IF (IsInf(a) /\ EqZero(b)) \/ (EqZero(a) /\ IsInf(b))
        THEN {MakeFloat(0, 255, 4194304), MakeFloat(1, 255, 4194304)}
        ELSE IF IsInf(a) \/ IsInf(b) THEN {MakeFloat(sgn, 255, 0)}
        ELSE IF EqZero(a) \/ EqZero(b) THEN {MakeFloat(sgn, 0, 0)}
        ELSE {FiniteProduct(a, b)}

-----------------------------------------------------------------------------
(***************************************************************************)
(* Float<M, E>::operator* and operator*=.                                  *)
(***************************************************************************)

\* Float<M, E>::FromFloat32(float val): val is stored as it is.
FromFloat32(val) == val

\* Float<M, E>::Zero()
FloatZero == FromFloat32(U32(0))

\* operator* returning zero whenever an operand is zero, NaN or not.
FloatMul_anyZero(this, flt) ==
    IF EqZero(this) \/ EqZero(flt) THEN {FloatZero}
    ELSE {FromFloat32(r) : r \in NativeMul(this, flt)}

\* Float<M, E>::operator*(const Float<M, E>& flt): the values it can return
FloatMul(this, flt) ==
    IF (EqZero(this) /\ ~IsNaN(flt)) \/ (EqZero(flt) /\ ~IsNaN(this))
    THEN {FloatZero}
    ELSE {FromFloat32(r) : r \in NativeMul(this, flt)}

\* Float<M, E>::operator*=(const Float<M, E>& flt): the values of *this after
FloatMulAssign(this, flt) ==
    IF (EqZero(this) /\ ~IsNaN(flt)) \/ (EqZero(flt) /\ ~IsNaN(this))
    THEN {FloatZero}
    ELSE NativeMul(this, flt)

\* The operands: both signs of zero, the smallest denormal, the smallest
\* and the largest normal float, 2^-63, 1, 1.5, 2, Infinity, a quiet and a
\* signalling NaN; and the float24 pattern 0x400001 and the float16 pattern
\* 0xFFFF, decoded.
FloatSample ==
    {MakeFloat(s, f[1], f[2]) :
        s \in 0..1,
        f \in {<<0, 0>>, <<0, 1>>, <<1, 0>>, <<64, 0>>, <<127, 0>>,
               <<127, 4194304>>, <<128, 0>>, <<254, 8388607>>,
               <<255, 0>>, <<255, 4194304>>, <<255, 1>>}}
    \cup {FromRaw(16, 7, U32(4194305)), FromRaw(10, 5, U32(65535))}

InitMul ==
    /\ pc = "made"
    /\ \E f \in Formats : \E a \in FloatSample, b \in FloatSample :
        /\ value = FromFloat32(a)
        /\ other = FromFloat32(b)
        /\ arg = [M |-> f[1], E |-> f[2], a |-> a, b |-> b]
    /\ ret = 0
    /\ fault = FALSE

Call_FloatMul ==
    /\ pc = "made"
    /\ ret' \in FloatMul(value, other)
    /\ pc' = "FloatMul"
    /\ UNCHANGED <<value, other, arg, fault>>

Call_FloatMulAssign ==
    /\ pc = "made"
    /\ value' \in FloatMulAssign(value, other)
    /\ ret' = value'
    /\ pc' = "FloatMulAssign"
    /\ UNCHANGED <<other, arg, fault>>

NextMul ==
    \/ Call_FloatMul
    \/ Call_FloatMulAssign

SpecMul == InitMul /\ [][NextMul]_vars

\* The class of a float: "zero" (+0 or -0), "finite" (nonzero), "inf", "nan".
ClassOf(w) ==
    IF Field(w, 23, 8) = 255
    THEN (IF Field(w, 0, 23) = 0 THEN "inf" ELSE "nan")
    ELSE (IF Field(w, 0, 31) = 0 THEN "zero" ELSE "finite")

\* C3: operator* and operator*= return zero whenever one operand is zero
\* and the other is not NaN, Infinity included; NaN times zero and zero
\* times NaN are NaN; in every other case the result is the native product;
\* and the two operators yield the same value for the same operands.
C3_MultiplyByZero ==
    pc \in {"FloatMul", "FloatMulAssign"} =>
        LET a == ClassOf(arg.a)
            b == ClassOf(arg.b)
            r == IF pc = "FloatMul" THEN ret ELSE value
            zeroed == (a = "zero" /\ b # "nan") \/ (b = "zero" /\ a # "nan")
        IN  /\ zeroed => ClassOf(r) = "zero"
            /\ (a = "nan" \/ b = "nan") => ClassOf(r) = "nan"
            /\ ~zeroed => r \in NativeMul(arg.a, arg.b)
            /\ pc = "FloatMul" => r \in FloatMulAssign(arg.a, arg.b)
            /\ pc = "FloatMulAssign" => r \in FloatMul(arg.a, arg.b)

C3_Witness ==
    /\ pc = "FloatMul"
    /\ ClassOf(arg.a) = "zero"
    /\ ClassOf(arg.b) = "inf"
    /\ ret = FloatZero

=============================================================================
